---- MODULE Spec2Model ----
(***************************************************************************)
(* A model of the commit-to-category pipeline of lerna-changelog:          *)
(* Changelog.createMarkdown (src/src/changelog.ts), the GitHub client's    *)
(* error paths (src/src/github-api.ts), the default configuration          *)
(* (src/unnamed/part_000) and the Markdown renderer                        *)
(* (src/src/markdown-renderer.ts).                                         *)
(*                                                                         *)
(* downloadIssueData runs one async mapper per commit under p-map; each    *)
(* action below is the code one mapper runs between two awaits.  Node runs *)
(* promise continuations (microtasks) to completion before it delivers the *)
(* next network response, so the response actions wait until no            *)
(* continuation is runnable.                                               *)
(***************************************************************************)
EXTENDS Integers, Sequences, FiniteSets, TLC

\* ------------------------------------------------------------------ bounds
\* Longest commit range of a run of the main specification.
MaxCommits == 3
\* Length of the commit range of the worker-pool specification.
PoolCommits == 6
\* Longest commit range of a run of the pipeline specification.
MaxPipelineCommits == 2

\* ------------------------------------------------------- program constants
UNRELEASED_TAG == "___unreleased___"
\* p-map's { concurrency: 5 }
Concurrency == 5

\* --------------------------------------------------------------- the values
\* commitInfo.issueNumber is a digit string or null.
NoIssue == "null"
IssueNumbers == {NoIssue, "0", "1"}

\* parseInt(issueNumber, 10) on the digit strings findPullRequestId yields.
ParseInt(s) ==
  CASE s = "0" -> 0
    [] s = "1" -> 1
    [] s = "2" -> 2
    [] OTHER -> 0

\* A PR node of associatedPullRequests, or null (isNull).  number 0 stands for
\* a missing number, login "" for an author object without login; hasAuthor
\* is false when the node's author is null.
MkPr(n, m, b, l) ==
  [isNull |-> FALSE, number |-> n, merged |-> m, baseRefName |-> b, login |-> l,
   hasAuthor |-> TRUE]

NullPr ==
  [isNull |-> TRUE, number |-> 0, merged |-> FALSE, baseRefName |-> "", login |-> "",
   hasAuthor |-> FALSE]

PrAlice == MkPr(1, TRUE, "main", "alice")
PrBot == MkPr(2, TRUE, "main", "dependabot[bot]")
PrUnmerged == MkPr(3, FALSE, "main", "robot-x")
PrSideBranch == MkPr(4, TRUE, "feature", "alice")
PrNoNumber == MkPr(0, TRUE, "main", "alice")
\* A merged PR whose author's login is made of digits only.
PrDigits == MkPr(5, TRUE, "main", "42")
\* A merged PR whose author is null (the account was deleted).
PrGhost == [MkPr(6, TRUE, "main", "") EXCEPT !.hasAuthor = FALSE]

AllPrResponses == {NullPr, PrAlice, PrBot, PrUnmerged, PrSideBranch, PrNoNumber}

\* closingIssuesReferences.nodes, each node reduced to its issueType.name
\* ("" when the issue has no type).
AllLinkedLists ==
  { << >>, <<"Question">>, <<"Enhancement", "Bug", "bug">>, <<"", "Defect", "Bug">> }

\* The HTTP side of a response: res.ok, whether res.json() can parse the body,
\* res.statusText and the body.
HttpOk == [ok |-> TRUE, json |-> TRUE, statusText |-> "OK", body |-> "data"]
HttpForbidden == [ok |-> FALSE, json |-> TRUE, statusText |-> "Forbidden", body |-> "rate limit"]
HttpBadGateway == [ok |-> FALSE, json |-> FALSE, statusText |-> "Bad Gateway", body |-> "<html>"]

AllOutcomes == {HttpOk, HttpForbidden, HttpBadGateway}

NoError == [kind |-> "none", statusText |-> "", body |-> ""]

\* GithubAPI._post / _fetch: res.json() runs first and throws on a body that is
\* not JSON; only then is res.ok tested, and the ConfigurationError built from
\* res.statusText and the parsed body.  NoError means the call returned.
_post(res) ==
  IF ~res.json THEN [kind |-> "invalid-json", statusText |-> "", body |-> ""]
  ELSE IF res.ok THEN NoError
  ELSE [kind |-> "ConfigurationError", statusText |-> res.statusText, body |-> res.body]

\* GithubAPI._fetch: as _post, for the REST calls.
_fetch(res) ==
  IF ~res.json THEN [kind |-> "invalid-json", statusText |-> "", body |-> ""]
  ELSE IF res.ok THEN NoError
  ELSE [kind |-> "ConfigurationError", statusText |-> res.statusText, body |-> res.body]

\* ------------------------------------------------------------ configuration
\* config.labels as the ordered key/value pairs of the object.
DefaultLabels ==
  << <<"breaking", ":boom: Breaking Change">>,
     <<"enhancement", ":rocket: Enhancement">>,
     <<"bug", ":bug: Bug Fix">>,
     <<"documentation", ":memo: Documentation">>,
     <<"internal", ":house: Internal">> >>

DefaultIgnoreCommitters ==
  << "dependabot-bot", "dependabot[bot]", "dependabot-preview[bot]",
     "greenkeeperio-bot", "greenkeeper[bot]", "renovate-bot", "renovate[bot]" >>

\* fromPath with no changelog key in package.json / lerna.json.
DefaultConfig ==
  [ labels |-> DefaultLabels,
    ignoreCommitters |-> DefaultIgnoreCommitters,
    baseBranchNames |-> {"main"} ]

\* fromPath with a changelog key: two issue types share one section, there is
\* an "uncategorized" mapping, and ignoreCommitters names a fragment of a login.
CustomConfig ==
  [ labels |-> << <<"bug", "Fixes">>, <<"defect", "Fixes">>,
                  <<"enhancement", "Features">>, <<"uncategorized", "Other">> >>,
    ignoreCommitters |-> << "bot" >>,
    baseBranchNames |-> {"main"} ]

Configs == {DefaultConfig, CustomConfig}

\* ------------------------------------------------------------------- state
VARIABLES
  config,       \* the Configuration the Changelog was constructed with
  to,           \* options.tagTo || "HEAD"
  github,       \* what the remote repository can answer in this run
  commitInfos,  \* the CommitInfo records of the range, in commit-list order
  nextIdx,      \* p-map: index of the next commit to hand to the mapper
  pc,           \* per commit: where its mapper is suspended
  prNumber,     \* per commit: the mapper's local prNumber (0 is null)
  foundPr,      \* per commit: the mapper's local foundPr
  awaiting,     \* per commit: the cached promise the mapper awaits (its creator)
  promise,      \* per commit: the promise its mapper put in prCache, if any
  prCache,      \* Map<number, Promise>: PR number -> creator of the promise
  remoteLinked, \* linked issues the remote has answered so far, per PR number
  linkedCalls,  \* number of getLinkedIssues requests sent, per PR number
  ticks,        \* progressBar.tick() calls
  phase,        \* how far createMarkdown has come; "error" once p-map rejected
  badResponse,  \* the first non-success response a remote call received
  rejectedPrs,  \* the PR nodes getPRForCommit returned that were not accepted
  runError,     \* the error createMarkdown rejected with
  pullRequests, \* result of getPullRequestsInfo
  releases,     \* result of listReleases
  tagDate,      \* what Git.getTagDate(to) returned
  markdown      \* result of createMarkdown

vars ==
  << config, to, github, commitInfos, nextIdx, pc, prNumber, foundPr,
     awaiting, promise, prCache, remoteLinked, linkedCalls, ticks, phase,
     badResponse, rejectedPrs, runError, pullRequests, releases, tagDate, markdown >>

N == Len(commitInfos)
Commits == 1..N

NoPromise == [state |-> "none", prNumber |-> 0, pr |-> NullPr, linkedIssues |-> << >>, error |-> NoError]

NoDate == "undefined"

\* toCommitInfos: a CommitInfo before enrichment.
toCommitInfo(issueNumber) ==
  [issueNumber |-> issueNumber, githubPr |-> NullPr, linkedIssues |-> << >>, githubIssue |-> FALSE]

InitFor(commitLists, worlds, configs, refs) ==
  /\ config \in configs
  /\ to \in refs
  /\ github \in worlds
  /\ commitInfos \in commitLists
  /\ nextIdx = 1
  /\ pc = [i \in Commits |-> "idle"]
  /\ prNumber = [i \in Commits |-> 0]
  /\ foundPr = [i \in Commits |-> NullPr]
  /\ awaiting = [i \in Commits |-> 0]
  /\ promise = [i \in Commits |-> NoPromise]
  /\ prCache = [n \in {} |-> 0]
  /\ remoteLinked = [n \in {} |-> << >>]
  /\ linkedCalls = [n \in {} |-> 0]
  /\ ticks = 0
  /\ phase = "download"
  /\ badResponse = HttpOk
  /\ rejectedPrs = {}
  /\ runError = NoError
  /\ pullRequests = << >>
  /\ releases = << >>
  /\ tagDate = NoDate
  /\ markdown = << >>

CommitLists(lo, hi, issueNumbers) ==
  UNION { [1..n -> {toCommitInfo(s) : s \in issueNumbers}] : n \in lo..hi }

Refs == {"HEAD", "v1.0.0"}

\* The remote of the main specification: commits with no PR or with one of two
\* merged PRs, every HTTP outcome, one list of linked issues.
RaceWorld == [prs |-> {NullPr, PrAlice, PrBot}, linked |-> {<<"Bug">>}, outcomes |-> AllOutcomes]

\* The remotes of the pipeline specification.  One has every list of linked
\* issues, the other every kind of PR node; no call fails in either.
CategoriesWorld == [prs |-> {NullPr, PrAlice, PrBot}, linked |-> AllLinkedLists, outcomes |-> {HttpOk}]

FilterWorld == [prs |-> AllPrResponses, linked |-> {<<"Bug">>}, outcomes |-> {HttpOk}]

\* A third one, for the contributors: three authors, one of them null.
ContributorsWorld == [prs |-> {PrAlice, PrDigits, PrGhost}, linked |-> {<<"Bug">>}, outcomes |-> {HttpOk}]

\* The remote of the liveness specification: every call succeeds, a commit has
\* one merged PR or none.
LiveWorld == [prs |-> {NullPr, PrAlice}, linked |-> {<<"Bug">>}, outcomes |-> {HttpOk}]

\* The remote of the worker-pool specification.
PoolWorld == [prs |-> {PrAlice}, linked |-> {<<"Bug">>}, outcomes |-> {HttpOk}]

Init == InitFor(CommitLists(0, MaxCommits, {NoIssue, "1"}), {RaceWorld}, {DefaultConfig}, {"HEAD"})

InitPipeline ==
  \/ InitFor(CommitLists(0, MaxPipelineCommits, IssueNumbers), {CategoriesWorld}, Configs, Refs)
  \/ InitFor(CommitLists(1, MaxPipelineCommits, IssueNumbers), {FilterWorld}, {DefaultConfig}, {"HEAD"})
  \/ InitFor(CommitLists(1, MaxPipelineCommits, {NoIssue}), {ContributorsWorld}, {DefaultConfig}, {"HEAD"})

InitLive ==
  InitFor(CommitLists(1, MaxCommits, {NoIssue, "1"}), {LiveWorld}, {DefaultConfig}, {"HEAD"})

InitPool ==
  InitFor({c \in CommitLists(Concurrency + 1, PoolCommits, {NoIssue, "1"}) :
             \A i \in 2..Len(c) : c[i].issueNumber = NoIssue},
          {PoolWorld}, {DefaultConfig}, {"HEAD"})

\* ------------------------------------------------- downloadIssueData helpers
Truthy(issueNumber) == issueNumber # NoIssue

\* Mutant of IsAcceptedPr: the merged test is left out.
IsAcceptedPrUnmerged(pr) ==
  /\ ~pr.isNull
  /\ pr.number # 0
  /\ pr.baseRefName \in config.baseBranchNames

\* pr && pr.merged && pr.number && baseBranchNames.includes(pr.baseRefName)
IsAcceptedPr(pr) ==
  /\ ~pr.isNull
  /\ pr.merged
  /\ pr.number # 0
  /\ pr.baseRefName \in config.baseBranchNames

env == <<config, to, github>>

post == <<pullRequests, releases, tagDate, markdown>>

InFlight == {i \in Commits : pc[i] \notin {"idle", "done", "failed"}}

\* Mutant of CanLaunch: the concurrency cap is left out.
CanLaunchUncapped ==
  /\ phase = "download"
  /\ nextIdx <= N

\* p-map hands the next commit to the mapper while fewer than `concurrency`
\* mappers are running and no mapper has thrown.
CanLaunch ==
  /\ phase = "download"
  /\ nextIdx <= N
  /\ Cardinality(InFlight) < Concurrency

Settled(i) == promise[i].state \in {"resolved", "rejected"}

CanResume(i) == phase = "download" /\ pc[i] = "awaitCache" /\ Settled(awaiting[i])

\* A network response is delivered only when no continuation is runnable.
\* Once p-map has rejected, createMarkdown has thrown; what the mappers still
\* in flight do after that is read by nobody and is not followed.
Quiescent == phase = "download" /\ ~CanLaunch /\ \A i \in Commits : ~CanResume(i)

MapPut(f, k, v) == [x \in DOMAIN f \cup {k} |-> IF x = k THEN v ELSE f[x]]

MapGet(f, k, default) == IF k \in DOMAIN f THEN f[k] ELSE default

\* The first response with res.ok false is remembered.
NoteResponse(res) ==
  badResponse' = IF badResponse.ok /\ ~res.ok THEN res ELSE badResponse

\* A PR node that came back and failed the test of lines 156 / 167 is remembered.
NoteLookup(err, pr) ==
  rejectedPrs' = IF err = NoError /\ ~pr.isNull /\ ~IsAcceptedPr(pr)
                   THEN rejectedPrs \cup {pr}
                   ELSE rejectedPrs

\* The mapper throws: p-map rejects on the first throw, and the rejection
\* passes through downloadIssueData, getPullRequestsInfo, listReleases and
\* createMarkdown, none of which catches.
Throw(i, err) ==
  /\ pc' = [pc EXCEPT ![i] = "failed"]
  /\ phase' = "error"
  /\ runError' = err
  /\ UNCHANGED ticks

\* Mutant of Finish: the mapper returns without progressBar.tick().
FinishWithoutTick(i) ==
  /\ pc' = [pc EXCEPT ![i] = "done"]
  /\ UNCHANGED <<ticks, phase, runError>>

\* progressBar.tick() and the mapper returns.
Finish(i) ==
  /\ pc' = [pc EXCEPT ![i] = "done"]
  /\ ticks' = ticks + 1
  /\ UNCHANGED <<phase, runError>>

Suspend(i, at) ==
  /\ pc' = [pc EXCEPT ![i] = at]
  /\ UNCHANGED <<ticks, phase, runError>>

\* Lines 171-181: the promise of the linked issues is put in the cache, which
\* sends the getLinkedIssues request, and is awaited.
CreateEntry(i, n, pr) ==
  /\ promise' = [promise EXCEPT ![i] =
       [state |-> "pending", prNumber |-> n, pr |-> pr, linkedIssues |-> << >>, error |-> NoError]]
  /\ prCache' = MapPut(prCache, n, i)
  /\ linkedCalls' = MapPut(linkedCalls, n, MapGet(linkedCalls, n, 0) + 1)
  /\ awaiting' = [awaiting EXCEPT ![i] = i]
  /\ Suspend(i, "awaitCache")

\* Line 181 with an entry already in the cache.
AwaitEntry(i, n) ==
  /\ awaiting' = [awaiting EXCEPT ![i] = prCache[n]]
  /\ Suspend(i, "awaitCache")
  /\ UNCHANGED <<promise, prCache, linkedCalls>>

\* Lines 162-181 from `if (prNumber)`: an existing entry is awaited; with no
\* entry and foundPr set the entry is created at once; with no entry and no
\* foundPr the mapper first awaits getPRForCommit (line 166).
EnterCache(i, n, pr) ==
  IF n \in DOMAIN prCache THEN AwaitEntry(i, n)
  ELSE IF ~pr.isNull THEN CreateEntry(i, n, pr)
  ELSE /\ Suspend(i, "getPR166")
       /\ UNCHANGED <<awaiting, promise, prCache, linkedCalls>>

\* Lines 194-199 and 202-206: the issue is fetched when the commit names one,
\* then the commit is ticked off.
IssueStep(i, at) ==
  IF Truthy(commitInfos[i].issueNumber) /\ ~commitInfos[i].githubIssue
    THEN Suspend(i, at)
    ELSE Finish(i)

\* ------------------------------------------------ downloadIssueData actions
\* p-map starts the mapper of the next commit, which runs to its first await
\* (lines 151-155, or 162-166 and 181 when the message names a number).
PMapNext ==
  /\ CanLaunch
  /\ LET i == nextIdx
         s == commitInfos[i].issueNumber
         n == IF Truthy(s) THEN ParseInt(s) ELSE 0
     IN /\ nextIdx' = nextIdx + 1
        /\ prNumber' = [prNumber EXCEPT ![i] = n]
        /\ IF n = 0
             THEN /\ Suspend(i, "getPR155")
                  /\ UNCHANGED <<awaiting, promise, prCache, linkedCalls>>
             ELSE EnterCache(i, n, NullPr)
  /\ UNCHANGED <<env, post, commitInfos, foundPr, remoteLinked, badResponse, rejectedPrs>>

\* The answer to getPRForCommit of line 155 arrives (lines 155-181, 202-206).
RecvPRForCommit155(i) ==
  /\ pc[i] = "getPR155"
  /\ Quiescent
  /\ \E res \in github.outcomes, pr \in github.prs :
       LET err == _post(res)
           ok == IsAcceptedPr(pr)
       IN /\ NoteResponse(res)
          /\ NoteLookup(err, pr)
          /\ IF err # NoError
               THEN /\ Throw(i, err)
                    /\ UNCHANGED <<prNumber, foundPr, awaiting, promise, prCache, linkedCalls>>
               ELSE /\ foundPr' = [foundPr EXCEPT ![i] = IF ok THEN pr ELSE NullPr]
                    /\ prNumber' = [prNumber EXCEPT ![i] = IF ok THEN pr.number ELSE prNumber[i]]
                    /\ IF ok
                         THEN EnterCache(i, pr.number, pr)
                         ELSE /\ IssueStep(i, "getIssue204")
                              /\ UNCHANGED <<awaiting, promise, prCache, linkedCalls>>
  /\ UNCHANGED <<env, post, commitInfos, nextIdx, remoteLinked>>

\* The answer to getPRForCommit of line 166 arrives (lines 166-181): the entry
\* is put in the cache without consulting the cache again.
RecvPRForCommit166(i) ==
  /\ pc[i] = "getPR166"
  /\ Quiescent
  /\ \E res \in github.outcomes, pr \in github.prs :
       LET err == _post(res)
           found == IF IsAcceptedPr(pr) THEN pr ELSE NullPr
       IN /\ NoteResponse(res)
          /\ NoteLookup(err, pr)
          /\ IF err # NoError
               THEN /\ Throw(i, err)
                    /\ UNCHANGED <<foundPr, awaiting, promise, prCache, linkedCalls>>
               ELSE /\ foundPr' = [foundPr EXCEPT ![i] = found]
                    /\ CreateEntry(i, prNumber[i], found)
  /\ UNCHANGED <<env, post, commitInfos, nextIdx, prNumber, remoteLinked>>

\* The answer to getLinkedIssues arrives and settles the promise commit p put
\* in the cache (lines 173-176).  The remote gives one PR number the same
\* linked issues throughout a run.
RecvLinkedIssues(p) ==
  /\ promise[p].state = "pending"
  /\ Quiescent
  /\ LET n == promise[p].prNumber
         answers == IF n \in DOMAIN remoteLinked THEN {remoteLinked[n]} ELSE github.linked
     IN \E res \in github.outcomes, linked \in answers :
          LET err == _post(res)
          IN /\ NoteResponse(res)
             /\ IF err # NoError
                  THEN /\ promise' = [promise EXCEPT ![p].state = "rejected", ![p].error = err]
                       /\ UNCHANGED remoteLinked
                  ELSE /\ promise' = [promise EXCEPT ![p].state = "resolved",
                                                      ![p].pr = foundPr[p],
                                                      ![p].linkedIssues = linked]
                       /\ remoteLinked' = MapPut(remoteLinked, n, linked)
  /\ UNCHANGED <<env, post, commitInfos, nextIdx, pc, prNumber, foundPr, awaiting,
                 prCache, linkedCalls, ticks, phase, runError, rejectedPrs>>

\* The mapper resumes from `await this.prCache.get(prNumber)` (lines 181-200).
ResumeCache(i) ==
  /\ CanResume(i)
  /\ LET p == awaiting[i]
         backfill == promise[p].pr.isNull /\ ~foundPr[i].isNull
         pr == IF backfill THEN foundPr[i] ELSE promise[p].pr
     IN IF promise[p].state = "rejected"
          THEN /\ Throw(i, promise[p].error)
               /\ UNCHANGED <<promise, commitInfos>>
          ELSE /\ promise' = [promise EXCEPT ![p].pr = pr]
               /\ commitInfos' = [commitInfos EXCEPT ![i].githubPr = pr,
                                                     ![i].linkedIssues = promise[p].linkedIssues]
               /\ IssueStep(i, "getIssue196")
  /\ UNCHANGED <<env, post, nextIdx, prNumber, foundPr, awaiting, prCache,
                 remoteLinked, linkedCalls, badResponse, rejectedPrs>>

\* The answer to getIssueData arrives (lines 196-199 and 204-206).
RecvIssueData(i) ==
  /\ pc[i] \in {"getIssue196", "getIssue204"}
  /\ Quiescent
  /\ \E res \in github.outcomes :
       LET err == _fetch(res)
       IN /\ NoteResponse(res)
          /\ IF err # NoError
               THEN Throw(i, err) /\ UNCHANGED commitInfos
               ELSE /\ commitInfos' = [commitInfos EXCEPT ![i].githubIssue = TRUE]
                    /\ Finish(i)
  /\ UNCHANGED <<env, post, nextIdx, prNumber, foundPr, awaiting, promise, prCache,
                 remoteLinked, linkedCalls, rejectedPrs>>

\* ------------------------------------------------------- the local pipeline
\* String.prototype.toLowerCase on the issue type names of this model.
toLowerCase(s) ==
  CASE s = "Bug" -> "bug"
    [] s = "Enhancement" -> "enhancement"
    [] s = "Defect" -> "defect"
    [] s = "Question" -> "question"
    [] OTHER -> s

\* this.config.labels[type]: the mapped section, "" when there is none.
LabelOf(labels, type) ==
  IF \E k \in 1..Len(labels) : labels[k][1] = type
    THEN labels[CHOOSE k \in 1..Len(labels) : labels[k][1] = type][2]
    ELSE ""

\* Mutant of SetAdd: an array push, with no test for membership.
SetAddPush(seq, x) == Append(seq, x)

\* Set.add on a Set kept in insertion order.
SetAdd(seq, x) == IF \E k \in 1..Len(seq) : seq[k] = x THEN seq ELSE Append(seq, x)

RECURSIVE ExtractFrom(_, _, _, _)
ExtractFrom(commits, i, seen, acc) ==
  IF i > Len(commits) THEN acc
  ELSE LET pr == commits[i].githubPr
       IN IF ~pr.isNull /\ pr.number # 0 /\ pr.number \notin seen
            THEN ExtractFrom(commits, i + 1, seen \cup {pr.number}, Append(acc, pr))
            ELSE ExtractFrom(commits, i + 1, seen, acc)

\* Mutant of extractPullRequestInfo: seenPullRequestNumbers is never filled.
extractPullRequestInfoUnseen(commits) ==
  SelectSeq([i \in 1..Len(commits) |-> commits[i].githubPr],
            LAMBDA pr : ~pr.isNull /\ pr.number # 0)

\* extractPullRequestInfo: the githubPr of the commits, one per number, in the
\* order of the first commit carrying each.
extractPullRequestInfo(commits) == ExtractFrom(commits, 1, {}, << >>)

RECURSIVE FlatLinked(_, _, _)
FlatLinked(commits, number, i) ==
  IF i > Len(commits) THEN << >>
  ELSE (IF ~commits[i].githubPr.isNull /\ commits[i].githubPr.number = number
          THEN commits[i].linkedIssues
          ELSE << >>) \o FlatLinked(commits, number, i + 1)

\* Line 288: commitInfos.filter(c => c.githubPr?.number === pr.number)
\*                      .flatMap(c => c.linkedIssues || [])
LinkedIssuesOf(commits, number) == FlatLinked(commits, number, 1)

RECURSIVE CategoriesFrom(_, _, _, _)
CategoriesFrom(labels, issues, i, acc) ==
  IF i > Len(issues) THEN acc
  ELSE LET type == toLowerCase(issues[i])
           category == IF type # "" THEN LabelOf(labels, type) ELSE ""
       IN CategoriesFrom(labels, issues, i + 1,
                         IF category # "" THEN SetAdd(acc, category) ELSE acc)

\* Mutant of CategoriesOf: the "uncategorized" fallback is left out.
CategoriesOfNoFallback(labels, issues) == CategoriesFrom(labels, issues, 1, << >>)

\* Lines 290-309 for one PR.
CategoriesOf(labels, issues) ==
  LET categories == CategoriesFrom(labels, issues, 1, << >>)
      fallback == LabelOf(labels, "uncategorized")
  IN IF Len(categories) = 0 /\ fallback # ""
       THEN <<fallback>>
       ELSE categories

WithCategories(pr, categories) ==
  [isNull |-> pr.isNull, number |-> pr.number, merged |-> pr.merged,
   baseRefName |-> pr.baseRefName, login |-> pr.login, hasAuthor |-> pr.hasAuthor,
   categories |-> categories]

\* Mutant of assignToCategories: the categories are added to those the PR
\* already has instead of to a new Set.
assignToCategoriesAccumulating(prs, commits, labels) ==
  [k \in 1..Len(prs) |->
     WithCategories(prs[k],
       (IF "categories" \in DOMAIN prs[k] THEN prs[k].categories ELSE << >>)
       \o CategoriesOf(labels, LinkedIssuesOf(commits, prs[k].number)))]

\* assignToCategories: every PR of the list gets its categories.
assignToCategories(prs, commits, labels) ==
  [k \in 1..Len(prs) |->
     WithCategories(prs[k], CategoriesOf(labels, LinkedIssuesOf(commits, prs[k].number)))]

\* Mutant of GroupFrom: a PR without categories is not skipped.
RECURSIVE GroupFromKeepAll(_, _, _, _, _)
GroupFromKeepAll(prs, name, date, i, releaseMap) ==
  IF i > Len(prs) THEN releaseMap
  ELSE LET made == IF Len(releaseMap) = 0
                     THEN << [name |-> name, date |-> date, pullRequests |-> << >>,
                              contributors |-> << >>] >>
                     ELSE releaseMap
       IN GroupFromKeepAll(prs, name, date, i + 1,
                           [made EXCEPT ![1].pullRequests = Append(@, prs[i])])

\* Lines 220-231: the loop of groupByRelease over the PRs.
RECURSIVE GroupFrom(_, _, _, _, _)
GroupFrom(prs, name, date, i, releaseMap) ==
  IF i > Len(prs) THEN releaseMap
  ELSE IF Len(prs[i].categories) = 0
    THEN GroupFrom(prs, name, date, i + 1, releaseMap)
    ELSE LET made == IF Len(releaseMap) = 0
                       THEN << [name |-> name, date |-> date, pullRequests |-> << >>,
                                contributors |-> << >>] >>
                       ELSE releaseMap
         IN GroupFrom(prs, name, date, i + 1,
                      [made EXCEPT ![1].pullRequests = Append(@, prs[i])])

\* Mutant of groupByRelease: the release is keyed by `to` even when it is HEAD.
groupByReleaseKeyedByTo(prs, ref, date) == GroupFrom(prs, ref, date, 1, << >>)

\* groupByRelease: the PRs with a category, all under the one key made of `to`;
\* date is what Git.getTagDate(to) returned.
groupByRelease(prs, ref, date) ==
  GroupFrom(prs, IF ref = "HEAD" THEN UNRELEASED_TAG ELSE ref, date, 1, << >>)

\* login.indexOf(c): the first position of c in login, -1 when there is none.
indexOf(login, c) ==
  LET at == {k \in 0..(Len(login) - Len(c)) : SubSeq(login, k + 1, k + Len(c)) = c}
  IN IF at = {} THEN -1 ELSE CHOOSE k \in at : \A j \in at : k <= j

\* Mutant of ignoreCommitter: only a login equal to an entry is ignored.
ignoreCommitterExact(login) ==
  \E k \in 1..Len(config.ignoreCommitters) : config.ignoreCommitters[k] = login

\* ignoreCommitter: some entry equals the login or occurs in it.
ignoreCommitter(login) ==
  \E k \in 1..Len(config.ignoreCommitters) :
    LET c == config.ignoreCommitters[k]
    IN c = login \/ indexOf(login, c) > -1

\* Lines 101-106: the committers object, its properties in creation order.
\* pr.author?.login is undefined for a null author and for one without login.
RECURSIVE CommittersFrom(_, _, _)
CommittersFrom(prs, i, committers) ==
  IF i > Len(prs) THEN committers
  ELSE LET login == IF prs[i].hasAuthor THEN prs[i].login ELSE ""
       IN CommittersFrom(prs, i + 1,
            IF login # "" /\ ~ignoreCommitter(login)
               /\ ~\E k \in 1..Len(committers) : committers[k].login = login
              THEN Append(committers, [login |-> login])
              ELSE committers)

Digits == {"0", "1", "2", "3", "4", "5", "6", "7", "8", "9"}

DigitValue(c) ==
  CASE c = "0" -> 0 [] c = "1" -> 1 [] c = "2" -> 2 [] c = "3" -> 3 [] c = "4" -> 4
    [] c = "5" -> 5 [] c = "6" -> 6 [] c = "7" -> 7 [] c = "8" -> 8 [] OTHER -> 9

\* A property key is an integer index when it is the canonical decimal form of
\* a non-negative integer.
IsIntegerIndex(key) ==
  /\ Len(key) > 0
  /\ \A k \in 1..Len(key) : SubSeq(key, k, k) \in Digits
  /\ (Len(key) = 1 \/ SubSeq(key, 1, 1) # "0")

RECURSIVE IndexValue(_, _)
IndexValue(key, k) ==
  IF k = 0 THEN 0 ELSE 10 * IndexValue(key, k - 1) + DigitValue(SubSeq(key, k, k))

\* Object.keys(committers).map(k => committers[k]): the integer indices in
\* ascending order first, then the other keys in creation order.
ObjectKeysOrder(committers) ==
  SortSeq(SelectSeq(committers, LAMBDA c : IsIntegerIndex(c.login)),
          LAMBDA a, b : IndexValue(a.login, Len(a.login)) < IndexValue(b.login, Len(b.login)))
  \o SelectSeq(committers, LAMBDA c : ~IsIntegerIndex(c.login))

\* getCommitters: the authors of the PRs that are not ignored, one per login.
getCommitters(prs) == ObjectKeysOrder(CommittersFrom(prs, 1, << >>))

\* fillInContributors
fillInContributors(rels) ==
  [r \in 1..Len(rels) |-> [rels[r] EXCEPT !.contributors = getCommitters(rels[r].pullRequests)]]

\* Git.getTagDate(ref): a date string, or nothing.
getTagDate(ref) == {NoDate, "2024-05-01"}

\* MarkdownRenderer.groupByCategory for one category.
PrsOfCategory(prs, name) ==
  SelectSeq(prs, LAMBDA pr : \E k \in 1..Len(pr.categories) : pr.categories[k] = name)

RECURSIVE RenderCategories(_, _, _)
RenderCategories(release, categories, i) ==
  IF i > Len(categories) THEN << >>
  ELSE LET prs == PrsOfCategory(release.pullRequests, categories[i])
       IN (IF Len(prs) = 0 THEN << >>
           ELSE << [block |-> "category", name |-> categories[i],
                    items |-> [k \in 1..Len(prs) |-> prs[k].number]] >>
                \o (IF Len(release.contributors) # 0
                      THEN << [block |-> "contributors", name |-> "Contributors",
                               items |-> [k \in 1..Len(release.contributors) |->
                                            release.contributors[k].login]] >>
                      ELSE << >>))
          \o RenderCategories(release, categories, i + 1)

\* renderRelease: the heading, then each category that has PRs.
renderRelease(release, categories) ==
  << [block |-> "heading",
      name |-> IF release.name = UNRELEASED_TAG THEN "Unofficial Release" ELSE release.name,
      items |-> <<release.date>>] >>
  \o RenderCategories(release, categories, 1)

\* renderMarkdown; the categories are the values of config.labels in key order.
renderMarkdown(rels) ==
  [r \in 1..Len(rels) |->
     renderRelease(rels[r], [k \in 1..Len(config.labels) |-> config.labels[k][2]])]

\* ------------------------------------------------------ createMarkdown steps
\* p-map has resolved: getPullRequestsInfo goes on after downloadIssueData
\* (lines 51-55).
GetPullRequestsInfo ==
  /\ phase = "download"
  /\ nextIdx > N
  /\ \A i \in Commits : pc[i] = "done"
  /\ pullRequests' = assignToCategories(extractPullRequestInfo(commitInfos),
                                        commitInfos, config.labels)
  /\ phase' = "prinfo"
  /\ UNCHANGED <<env, commitInfos, nextIdx, pc, prNumber, foundPr, awaiting, promise,
                 prCache, remoteLinked, linkedCalls, ticks, badResponse, rejectedPrs, runError,
                 releases, tagDate, markdown>>

\* listReleases goes on after getPullRequestsInfo (lines 63-68).
ListReleases ==
  /\ phase = "prinfo"
  /\ \E date \in getTagDate(to) :
       /\ tagDate' = date
       /\ releases' = fillInContributors(groupByRelease(pullRequests, to, date))
  /\ phase' = "released"
  /\ UNCHANGED <<env, commitInfos, nextIdx, pc, prNumber, foundPr, awaiting, promise,
                 prCache, remoteLinked, linkedCalls, ticks, badResponse, rejectedPrs, runError,
                 pullRequests, markdown>>

\* renderMergedPullRequests reads pr.author.login of every PR it lists, which
\* throws a TypeError when the author is null.  Every PR of a release has a
\* category, and every category is a value of config.labels, so every PR of a
\* release is listed.
RenderThrows(rels) ==
  \E r \in 1..Len(rels) : \E k \in 1..Len(rels[r].pullRequests) :
    ~rels[r].pullRequests[k].hasAuthor

\* createMarkdown returns the rendering (line 40), or rejects with what the
\* renderer threw.
CreateMarkdown ==
  /\ phase = "released"
  /\ IF RenderThrows(releases)
       THEN /\ phase' = "error"
            /\ runError' = [kind |-> "TypeError", statusText |-> "", body |-> ""]
            /\ UNCHANGED markdown
       ELSE /\ markdown' = renderMarkdown(releases)
            /\ phase' = "rendered"
            /\ UNCHANGED runError
  /\ UNCHANGED <<env, commitInfos, nextIdx, pc, prNumber, foundPr, awaiting, promise,
                 prCache, remoteLinked, linkedCalls, ticks, badResponse, rejectedPrs,
                 pullRequests, releases, tagDate>>

Next ==
  \/ PMapNext
  \/ \E i \in Commits : RecvPRForCommit155(i)
  \/ \E i \in Commits : RecvPRForCommit166(i)
  \/ \E p \in Commits : RecvLinkedIssues(p)
  \/ \E i \in Commits : ResumeCache(i)
  \/ \E i \in Commits : RecvIssueData(i)
  \/ GetPullRequestsInfo
  \/ ListReleases
  \/ CreateMarkdown

Spec == Init /\ [][Next]_vars

SpecPipeline == InitPipeline /\ [][Next]_vars

SpecPool == InitPool /\ [][Next]_vars

\* Every remote call is answered with success, and the event loop runs every
\* continuation that can run: some enabled step is eventually taken.
SpecLive == InitLive /\ [][Next]_vars /\ WF_vars(Next)
\* ------------------------------------------------------------------ claims
AfterPrInfo == phase \in {"prinfo", "released", "rendered"}

AfterReleases == phase \in {"released", "rendered"}

Done(i) == pc[i] = "done"

Carries(i, n) == ~commitInfos[i].githubPr.isNull /\ commitInfos[i].githubPr.number = n

PositionsOf(n) == {k \in 1..Len(pullRequests) : pullRequests[k].number = n}

LabelKeys == {config.labels[k][1] : k \in 1..Len(config.labels)}

\* C1: in one run getLinkedIssues is requested exactly once for every PR number
\* some commit resolves to, whatever the interleaving of the commit workers:
\* never twice while the run goes on, and once when the download has completed.
C1_LinkedIssuesOnce ==
  /\ \A n \in DOMAIN linkedCalls : linkedCalls[n] <= 1
  /\ AfterPrInfo =>
       \A i \in Commits : prNumber[i] # 0 => MapGet(linkedCalls, prNumber[i], 0) = 1

Referenced == {prNumber[i] : i \in Commits} \ {0}

FirstRef(n) == CHOOSE i \in Commits : prNumber[i] = n /\ \A j \in Commits : prNumber[j] = n => i <= j

\* C2 as stated: every PR number a commit of the range references has exactly
\* one record in the final PR list, and the records stand in the order of the
\* first commit referencing each number.
C2_OneRecordPerReferencedPr ==
  AfterPrInfo =>
    /\ \A n \in Referenced : Cardinality(PositionsOf(n)) = 1
    /\ \A n, m \in Referenced :
         FirstRef(n) < FirstRef(m) => \A a \in PositionsOf(n), b \in PositionsOf(m) : a < b

Carried == {commitInfos[i].githubPr.number : i \in {j \in Commits : ~commitInfos[j].githubPr.isNull}} \ {0}

FirstCarrier(n) == CHOOSE i \in Commits : Carries(i, n) /\ \A j \in Commits : Carries(j, n) => i <= j

\* C2 as amended: every PR number carried by the githubPr of one or more commits
\* after enrichment has exactly one record in the final PR list, which is the
\* githubPr of the first commit carrying that number; the records stand in the
\* order of those first commits, and the list holds nothing else.
C2_OneRecordPerAttachedPr ==
  AfterPrInfo =>
    /\ \A k \in 1..Len(pullRequests) : pullRequests[k].number \in Carried
    /\ \A n \in Carried :
         /\ Cardinality(PositionsOf(n)) = 1
         /\ \A k \in PositionsOf(n) :
              /\ pullRequests[k].login = commitInfos[FirstCarrier(n)].githubPr.login
              /\ pullRequests[k].baseRefName = commitInfos[FirstCarrier(n)].githubPr.baseRefName
    /\ \A n, m \in Carried :
         FirstCarrier(n) < FirstCarrier(m) =>
           \A a \in PositionsOf(n), b \in PositionsOf(m) : a < b

\* C2 witness: three commits, the first and the third carrying one PR and the
\* second another, and a final list of two records.
C2_Witness ==
  /\ AfterPrInfo
  /\ N = 3
  /\ Len(pullRequests) = 2
  /\ \A i \in Commits : ~commitInfos[i].githubPr.isNull
  /\ commitInfos[1].githubPr.number = commitInfos[3].githubPr.number
  /\ commitInfos[1].githubPr.number # commitInfos[2].githubPr.number

MergedOnBase(pr) ==
  pr.merged /\ pr.number # 0 /\ pr.baseRefName \in config.baseBranchNames

\* C3: in every state every PR attached to a commit as githubPr, held by a
\* cache entry, listed in the final PR list or in a release is merged, has a
\* number and has a base branch of config.baseBranchNames; a PR node that was
\* looked up and fails one of these is in none of those places.
C3_OnlyAcceptedPrs ==
  /\ \A i \in Commits :
       /\ ~commitInfos[i].githubPr.isNull => MergedOnBase(commitInfos[i].githubPr)
       /\ ~promise[i].pr.isNull => MergedOnBase(promise[i].pr)
       /\ commitInfos[i].githubPr \notin rejectedPrs
       /\ promise[i].pr \notin rejectedPrs
  /\ \A k \in 1..Len(pullRequests) : MergedOnBase(pullRequests[k])
  /\ \A r \in 1..Len(releases) :
       \A k \in 1..Len(releases[r].pullRequests) : MergedOnBase(releases[r].pullRequests[k])

\* C3 witness: a run that looked up a PR node it did not accept and attached
\* another PR to a commit.
C3_Witness ==
  /\ AfterReleases
  /\ rejectedPrs # {}
  /\ \E i \in Commits : ~commitInfos[i].githubPr.isNull
  /\ Len(releases) = 1

\* The lower-cased issue types of the linked issues of every commit carrying n.
GatheredTypes(n) ==
  UNION { {toLowerCase(commitInfos[i].linkedIssues[j]) : j \in 1..Len(commitInfos[i].linkedIssues)} :
          i \in {c \in Commits : Carries(c, n)} }

InSomeRelease(n) ==
  \E r \in 1..Len(releases) :
    \E k \in 1..Len(releases[r].pullRequests) : releases[r].pullRequests[k].number = n

\* C4: after assignToCategories a PR none of whose linked issues has an issue
\* type mapped in config.labels has exactly the label mapped for
\* "uncategorized" when there is one; when there is none its categories are
\* empty and no release of groupByRelease holds it.
C4_UncategorizedFallback ==
  AfterPrInfo =>
    \A k \in 1..Len(pullRequests) :
      GatheredTypes(pullRequests[k].number) \cap LabelKeys = {} =>
        IF "uncategorized" \in LabelKeys
          THEN pullRequests[k].categories = << LabelOf(config.labels, "uncategorized") >>
          ELSE /\ pullRequests[k].categories = << >>
               /\ ~InSomeRelease(pullRequests[k].number)

\* C4 witness: with no "uncategorized" mapping, a PR whose linked issue has an
\* unmapped type is left out of the release another PR is in.
C4_Witness ==
  /\ AfterReleases
  /\ "uncategorized" \notin LabelKeys
  /\ Len(releases) = 1
  /\ \E k \in 1..Len(pullRequests) :
       /\ GatheredTypes(pullRequests[k].number) # {}
       /\ GatheredTypes(pullRequests[k].number) \cap LabelKeys = {}

\* The places <<commit, issue>> of the linked issues of PR n whose lower-cased
\* type is a key of config.labels, and the section each maps to.
Matches(n) ==
  UNION { {<<i, j>> : j \in {x \in 1..Len(commitInfos[i].linkedIssues) :
                               toLowerCase(commitInfos[i].linkedIssues[x]) \in LabelKeys}} :
          i \in {c \in Commits : Carries(c, n)} }

SectionAt(p) == LabelOf(config.labels, toLowerCase(commitInfos[p[1]].linkedIssues[p[2]]))

Before(p, q) == p[1] < q[1] \/ (p[1] = q[1] /\ p[2] < q[2])

FirstMatch(n, c) ==
  CHOOSE p \in Matches(n) :
    SectionAt(p) = c /\ \A q \in Matches(n) : SectionAt(q) = c => (p = q \/ Before(p, q))

\* C5: after assignToCategories the categories of a PR with a matching linked
\* issue are exactly the sections mapped for the lower-cased issue types of the
\* linked issues of every commit carrying the PR's number, each once, in the
\* order of their first match, and without the fallback.
C5_CategoriesFromIssueTypes ==
  AfterPrInfo =>
    \A k \in 1..Len(pullRequests) :
      LET n == pullRequests[k].number
          cats == pullRequests[k].categories
      IN Matches(n) # {} =>
           /\ {cats[a] : a \in 1..Len(cats)} = {SectionAt(p) : p \in Matches(n)}
           /\ \A a, b \in 1..Len(cats) :
                a < b => /\ cats[a] # cats[b]
                         /\ Before(FirstMatch(n, cats[a]), FirstMatch(n, cats[b]))

\* C5 witness: a PR with two categories drawn from three or more matching
\* linked issues.
C5_Witness ==
  /\ AfterPrInfo
  /\ \E k \in 1..Len(pullRequests) :
       /\ Len(pullRequests[k].categories) = 2
       /\ Cardinality(Matches(pullRequests[k].number)) >= 3

\* C6: once a remote call has received a non-success response no changelog is
\* returned, and the error createMarkdown ends in carries the status text and
\* the body of that response.
C6_RemoteFailureAborts ==
  ~badResponse.ok =>
    /\ phase \in {"download", "error"}
    /\ releases = << >> /\ markdown = << >>
    /\ phase = "error" =>
         /\ runError.statusText = badResponse.statusText
         /\ runError.body = badResponse.body

Occurs(c, login) ==
  \E k \in 1..(Len(login) - Len(c) + 1) : SubSeq(login, k, k + Len(c) - 1) = c

\* C7: no contributor of any release has a login that equals an entry of
\* config.ignoreCommitters or contains one; with the default list no
\* contributor is "dependabot[bot]".
C7_NoIgnoredContributor ==
  \A r \in 1..Len(releases) :
    \A k \in 1..Len(releases[r].contributors) :
      LET login == releases[r].contributors[k].login
      IN /\ \A e \in 1..Len(config.ignoreCommitters) :
              /\ login # config.ignoreCommitters[e]
              /\ ~Occurs(config.ignoreCommitters[e], login)
         /\ config.ignoreCommitters = DefaultIgnoreCommitters => login # "dependabot[bot]"

\* C7 witness: under the default list, a release with a PR by "dependabot[bot]"
\* and a contributor.
C7_Witness ==
  /\ AfterReleases
  /\ config.ignoreCommitters = DefaultIgnoreCommitters
  /\ \E r \in 1..Len(releases) :
       /\ \E k \in 1..Len(releases[r].pullRequests) :
            releases[r].pullRequests[k].login = "dependabot[bot]"
       /\ Len(releases[r].contributors) > 0

\* C8 as stated: a run to HEAD produces exactly one release, named with the
\* unreleased marker, with no date.
C8_OneUndatedUnreleasedRelease ==
  (AfterReleases /\ to = "HEAD") =>
    /\ Len(releases) = 1
    /\ releases[1].name = UNRELEASED_TAG
    /\ releases[1].date = NoDate

\* C8 as amended: a run to HEAD produces one release when some PR has a
\* category and none otherwise; the release is named with the unreleased
\* marker and its date is what Git.getTagDate("HEAD") returned.
C8_AtMostOneUnreleasedRelease ==
  (AfterReleases /\ to = "HEAD") =>
    /\ Len(releases) <= 1
    /\ Len(releases) = 1 <=> \E k \in 1..Len(pullRequests) : Len(pullRequests[k].categories) > 0
    /\ \A r \in 1..Len(releases) :
         /\ releases[r].name = UNRELEASED_TAG
         /\ releases[r].date = tagDate

\* C8 witness: a run to HEAD over a range with no tags whose one release is
\* named with the unreleased marker and leaves out a PR without categories.
C8_Witness ==
  /\ AfterReleases
  /\ to = "HEAD"
  /\ Len(releases) = 1
  /\ releases[1].name = UNRELEASED_TAG
  /\ Len(releases[1].pullRequests) < Len(pullRequests)

Running(i) == pc[i] \in {"getPR155", "getPR166", "awaitCache", "getIssue196", "getIssue204"}

\* C9: in every state of downloadIssueData at most 5 commits have started
\* enrichment and not finished it.
C9_AtMostFiveInFlight == Cardinality({i \in Commits : Running(i)}) <= 5

\* C9 witness: five commits in flight while a sixth waits for a free worker.
C9_Witness ==
  /\ Cardinality({i \in Commits : Running(i)}) = 5
  /\ \E i \in Commits : pc[i] = "idle"
  /\ \E i \in Commits : pc[i] = "awaitCache"

\* C10: when commit a took PR number n from its message and found no accepted
\* PR itself, and commit b resolved n with a merged PR of that number, then
\* once both have finished the cache entry of n holds b's PR.
C10_BackFill ==
  \A a, b \in Commits :
    ( /\ Done(a) /\ Done(b)
      /\ Truthy(commitInfos[a].issueNumber)
      /\ prNumber[a] # 0
      /\ foundPr[a].isNull
      /\ prNumber[b] = prNumber[a]
      /\ ~foundPr[b].isNull
      /\ foundPr[b].number = prNumber[b] )
    => LET entry == promise[prCache[prNumber[a]]]
       IN entry.state = "resolved" => (~entry.pr.isNull /\ entry.pr = foundPr[b])

NumbersOf(prs) == [k \in 1..Len(prs) |-> prs[k].number]

\* The fixed input of C11: a first commit whose message references #1 and whose
\* own associated PR is PR 2, and a second commit with no number in its message
\* whose associated PR is PR 1.
C11_FixedInput ==
  /\ N = 2
  /\ commitInfos[1].issueNumber = "1"
  /\ commitInfos[2].issueNumber = NoIssue
  /\ foundPr[1] = PrBot
  /\ foundPr[2] = PrAlice

\* C11: for a fixed commit list and fixed remote responses the final PR list is
\* the same for every order in which the remote calls complete; for the fixed
\* input above it is the list <<PR 2, PR 1>> that the run yields in which the
\* second commit's lookup is answered first.
C11_PrListDetermined ==
  (AfterPrInfo /\ C11_FixedInput) => NumbersOf(pullRequests) = <<2, 1>>

\* The run of the fixed input in which the second commit's lookup is answered
\* first.
C11_SecondAnsweredFirst ==
  AfterPrInfo /\ C11_FixedInput /\ NumbersOf(pullRequests) = <<2, 1>>

NoDuplicates(seq) == \A a, b \in 1..Len(seq) : a # b => seq[a] # seq[b]

\* C12: running assignToCategories a second time on the PR list it has filled
\* in, with the same enriched commits, leaves the categories of every PR as the
\* first run set them, with no entry twice.
C12_AssignToCategoriesIdempotent ==
  AfterPrInfo =>
    /\ assignToCategories(pullRequests, commitInfos, config.labels) = pullRequests
    /\ \A k \in 1..Len(pullRequests) : NoDuplicates(pullRequests[k].categories)

\* C12 witness: a list of two PRs, one with two categories drawn from linked
\* issues naming one type twice, which the second run leaves as it is.
C12_Witness ==
  /\ AfterPrInfo
  /\ Len(pullRequests) = 2
  /\ \E k \in 1..Len(pullRequests) :
       /\ Len(pullRequests[k].categories) = 2
       /\ Len(LinkedIssuesOf(commitInfos, pullRequests[k].number)) >= 3
  /\ assignToCategories(pullRequests, commitInfos, config.labels) = pullRequests

GalleryCount(rendered) ==
  Cardinality({k \in 1..Len(rendered) : rendered[k].block = "contributors"})

\* C13: the Markdown of a release with contributors contains the release's
\* contributor gallery exactly once, however many of its categories have PRs.
C13_OneGalleryPerRelease ==
  phase = "rendered" =>
    \A r \in 1..Len(releases) :
      Len(releases[r].contributors) # 0 => GalleryCount(markdown[r]) = 1

\* The pr of the entry a cache holds under key n.
CachedPr(cache, promises, n) == promises[cache[n]].pr

\* C14: the pr the cache holds for a PR number only ever changes from null to
\* a PR object; once it is a PR object no step replaces it with null or with
\* another object.
C14_CachedPrNeverReplaced ==
  [][ \A n \in DOMAIN prCache :
        ~CachedPr(prCache, promise, n).isNull =>
          CachedPr(prCache', promise', n) = CachedPr(prCache, promise, n) ]_vars

\* The PRs of the final list that have a category, in the order of the list.
Categorized == SelectSeq(pullRequests, LAMBDA pr : Len(pr.categories) > 0)

ContributedLogin(pr) ==
  IF pr.hasAuthor /\ pr.login # ""
     /\ ~\E e \in 1..Len(config.ignoreCommitters) :
          config.ignoreCommitters[e] = pr.login \/ Occurs(config.ignoreCommitters[e], pr.login)
    THEN pr.login
    ELSE ""

FirstPrOf(prs, login) ==
  CHOOSE k \in 1..Len(prs) :
    ContributedLogin(prs[k]) = login /\ \A j \in 1..Len(prs) : ContributedLogin(prs[j]) = login => k <= j

\* C16: the contributors of every release are the authors of its PRs that pass
\* the ignore filter, one per login, in the order of the first PR of each
\* login; a PR with no author or no login contributes nothing.
C16_ContributorsInFirstSeenOrder ==
  AfterReleases =>
    \A r \in 1..Len(releases) :
      LET prs == releases[r].pullRequests
          cs == releases[r].contributors
      IN /\ {cs[a].login : a \in 1..Len(cs)} = {ContributedLogin(prs[k]) : k \in 1..Len(prs)} \ {""}
         /\ \A a, b \in 1..Len(cs) :
              a < b => /\ cs[a].login # cs[b].login
                       /\ FirstPrOf(prs, cs[a].login) < FirstPrOf(prs, cs[b].login)

\* C17: when every remote call returns with success, under fair scheduling
\* downloadIssueData eventually completes with every commit's mapper finished
\* (so none is left suspended on a cached promise) and one progress tick per
\* commit, and there are never more ticks than commits.
C17_DownloadCompletes ==
  /\ <>(phase = "prinfo" /\ ticks = N /\ \A i \in Commits : Done(i))
  /\ [](ticks <= N)

\* C17 witness: the download of the longest range has completed with one tick
\* per commit; one commit has neither a PR nor an issue number, and another
\* was given the cached promise a different commit had created.
C17_Witness ==
  /\ phase = "prinfo"
  /\ N = MaxCommits
  /\ ticks = N
  /\ \E i \in Commits : commitInfos[i].issueNumber = NoIssue /\ prNumber[i] = 0 /\ Done(i)
  /\ \E i \in Commits : awaiting[i] \notin {0, i}

\* C18: a cache entry stored under key n holds a null pr or a PR whose number
\* is n, and the linkedIssues attached to a finished commit are the linked
\* issues the remote gave for the number of the PR attached to it as githubPr.
C18_CacheKeyConsistent ==
  /\ \A n \in DOMAIN prCache :
       LET pr == CachedPr(prCache, promise, n)
       IN pr.isNull \/ pr.number = n
  /\ \A i \in Commits :
       (Done(i) /\ ~commitInfos[i].githubPr.isNull) =>
         /\ commitInfos[i].githubPr.number \in DOMAIN remoteLinked
         /\ commitInfos[i].linkedIssues = remoteLinked[commitInfos[i].githubPr.number]

\* C19: once downloadIssueData has completed, the commits that resolved to one
\* PR number carry the same githubPr and the same linkedIssues.
C19_ReadersConverge ==
  AfterPrInfo =>
    \A i, j \in Commits :
      (prNumber[i] # 0 /\ prNumber[i] = prNumber[j]) =>
        /\ commitInfos[i].githubPr = commitInfos[j].githubPr
        /\ commitInfos[i].linkedIssues = commitInfos[j].linkedIssues
====
